---- MODULE Spec2Model ----
(***************************************************************************)
(* A model of the housing recommendation engine (src/src/housing_ai.py):   *)
(* the filter pipeline of HousingAI.search, the scoring function, the      *)
(* rule-based query parser and the answer_query orchestrator, together     *)
(* with the properties the specification states about them; the loading   *)
(* of the dataset (_load_data, _parse_bool) and the contact module         *)
(* (src/src/agent_caller.py) have specifications of their own.             *)
(*                                                                         *)
(* Text is modelled as a sequence of one-character strings, so that        *)
(* lower-casing, trimming, substring and pattern matching are computed     *)
(* character by character as the Python code computes them.  A missing     *)
(* number (None / NaN) is the empty set and a present number n is {n}; a   *)
(* missing string is the one-element sequence NaNStr (or NoneStr for an    *)
(* absent parameter), which is no sequence of characters.  Scores are kept *)
(* in hundredths of a point, the precision round(score, 2) leaves.         *)
(***************************************************************************)
EXTENDS Integers, Sequences, FiniteSets, TLC

VARIABLES df, tie, pc, call, results, raised, summary,
          source, caller, contact, sent, message, outcome,
          last_results, reply, handlers

\* the CSV source the engine is loaded from, and the contact module: its
\* credentials, the request in progress, the send attempts made for it, the
\* texts rendered and the result
agent == <<contact, sent, message, outcome>>

\* the chatbot: the results it remembers and its reply, and the /api/chat
\* requests being handled
chat == <<last_results, reply, handlers>>

others == <<source, caller, agent, chat>>

vars == <<df, tie, pc, call, results, raised, summary, others>>

----------------------------------------------------------------------------
(* Python string operations                                                *)

UpperChars == <<"A","B","C","D","E","F","G","H","I","J","K","L","M","N","O","P","Q","R","S","T","U","V","W","X","Y","Z">>

LowerChars == <<"a","b","c","d","e","f","g","h","i","j","k","l","m","n","o","p","q","r","s","t","u","v","w","x","y","z">>

Digits == <<"0","1","2","3","4","5","6","7","8","9">>

NaNStr == <<"<NaN>">>

NoneStr == <<"<None>">>

IndexIn(c, chars) == IF \E i \in 1..Len(chars) : chars[i] = c
                     THEN CHOOSE i \in 1..Len(chars) : chars[i] = c
                     ELSE 0

\* the case mappings of the ASCII letters
ToLower == [c \in {UpperChars[i] : i \in 1..Len(UpperChars)} |-> LowerChars[IndexIn(c, UpperChars)]]

ToUpper == [c \in {LowerChars[i] : i \in 1..Len(LowerChars)} |-> UpperChars[IndexIn(c, LowerChars)]]

lower_char(c) == IF c \in DOMAIN ToLower THEN ToLower[c] ELSE c

upper_char(c) == IF c \in DOMAIN ToUpper THEN ToUpper[c] ELSE c

lower(s) == [i \in 1..Len(s) |-> lower_char(s[i])]

upper(s) == [i \in 1..Len(s) |-> upper_char(s[i])]

IsSpace(c) == c = " "

IsDigit(c) == IndexIn(c, Digits) > 0

IsAlpha(c) == IndexIn(c, UpperChars) > 0 \/ IndexIn(c, LowerChars) > 0

IsWordChar(c) == IsAlpha(c) \/ IsDigit(c) \/ c = "_"

\* str.strip(): drop the leading and the trailing whitespace
strip(s) ==
  IF \A i \in 1..Len(s) : IsSpace(s[i]) THEN <<>>
  ELSE LET a == CHOOSE i \in 1..Len(s) :
                    ~IsSpace(s[i]) /\ \A j \in 1..(i-1) : IsSpace(s[j])
           b == CHOOSE i \in 1..Len(s) :
                    ~IsSpace(s[i]) /\ \A j \in (i+1)..Len(s) : IsSpace(s[j])
       IN  SubSeq(s, a, b)

\* a title-casing that upper-cases the first letter of the text only
title_first_letter(s) ==
  [i \in 1..Len(s) |-> IF i = 1 THEN upper_char(s[i]) ELSE lower_char(s[i])]

\* str.title(): upper-case the first letter of every run of letters
title(s) ==
  [i \in 1..Len(s) |->
     IF i = 1 \/ ~IsAlpha(s[i-1]) THEN upper_char(s[i]) ELSE lower_char(s[i])]

\* sub in s
contains(sub, s) ==
  \E i \in 1..(Len(s) - Len(sub) + 1) : SubSeq(s, i, i + Len(sub) - 1) = sub

endswith(s, suffix) ==
  Len(s) >= Len(suffix) /\ SubSeq(s, Len(s) - Len(suffix) + 1, Len(s)) = suffix

\* int() of a run of decimal digits
RECURSIVE int(_)
int(s) == IF s = <<>> THEN 0
          ELSE 10 * int(SubSeq(s, 1, Len(s) - 1)) + (IndexIn(s[Len(s)], Digits) - 1)

----------------------------------------------------------------------------
(* Regular expressions, as far as the language filter meets them: literal  *)
(* characters, "." (any character) and grouping parentheses.               *)

RECURSIVE ParenDepthOk(_, _)
ParenDepthOk(pat, depth) ==
  IF pat = <<>> THEN depth = 0
  ELSE IF Head(pat) = "(" THEN ParenDepthOk(Tail(pat), depth + 1)
  ELSE IF Head(pat) = ")" THEN depth > 0 /\ ParenDepthOk(Tail(pat), depth - 1)
  ELSE ParenDepthOk(Tail(pat), depth)

\* re.compile(pat) succeeds (an unbalanced parenthesis raises re.error)
re_compiles(pat) == ParenDepthOk(pat, 0)

re_atoms(pat) == SelectSeq(pat, LAMBDA c : c \notin {"(", ")"})

\* re.search(pat, s, re.IGNORECASE) finds a match
re_search_ignorecase(pat, s) ==
  LET p == lower(re_atoms(pat))
      t == lower(s)
  IN  \E i \in 1..(Len(t) - Len(p) + 1) :
        \A k \in 1..Len(p) : p[k] = "." \/ p[k] = t[i + k - 1]

----------------------------------------------------------------------------
(* Language aliases                                                        *)

LANGUAGE_ALIASES ==
  << << <<"e","n","g","l","i","s","h">>,
        <<"E","n","g","l","i","s","h">> >>,
     << <<"s","p","a","n","i","s","h">>,
        <<"S","p","a","n","i","s","h">> >>,
     << <<"s","p","a","n","i","s","h","/","l","a","t","i","n">>,
        <<"S","p","a","n","i","s","h">> >>,
     << <<"c","h","i","n","e","s","e">>,
        <<"C","h","i","n","e","s","e">> >>,
     << <<"m","a","n","d","a","r","i","n">>,
        <<"C","h","i","n","e","s","e">> >>,
     << <<"c","a","n","t","o","n","e","s","e">>,
        <<"C","h","i","n","e","s","e">> >>,
     << <<"k","o","r","e","a","n">>,
        <<"K","o","r","e","a","n">> >>,
     << <<"v","i","e","t","n","a","m","e","s","e">>,
        <<"V","i","e","t","n","a","m","e","s","e">> >>,
     << <<"a","r","a","b","i","c">>,
        <<"A","r","a","b","i","c">> >>,
     << <<"h","i","n","d","i">>,
        <<"H","i","n","d","i">> >>,
     << <<"g","u","j","a","r","a","t","i">>,
        <<"G","u","j","a","r","a","t","i">> >>,
     << <<"f","r","e","n","c","h">>,
        <<"F","r","e","n","c","h">> >>,
     << <<"a","m","h","a","r","i","c">>,
        <<"A","m","h","a","r","i","c">> >>,
     << <<"s","o","m","a","l","i">>,
        <<"S","o","m","a","l","i">> >>,
     << <<"h","a","i","t","i","a","n"," ","c","r","e","o","l","e">>,
        <<"H","a","i","t","i","a","n"," ","C","r","e","o","l","e">> >>,
     << <<"c","r","e","o","l","e">>,
        <<"H","a","i","t","i","a","n"," ","C","r","e","o","l","e">> >>,
     << <<"r","u","s","s","i","a","n">>,
        <<"R","u","s","s","i","a","n">> >> >>

\* LANGUAGE_ALIASES.get(key, default)
AliasGet(key, default) ==
  IF \E i \in 1..Len(LANGUAGE_ALIASES) : LANGUAGE_ALIASES[i][1] = key
  THEN LANGUAGE_ALIASES[CHOOSE i \in 1..Len(LANGUAGE_ALIASES) : LANGUAGE_ALIASES[i][1] = key][2]
  ELSE default

----------------------------------------------------------------------------
(* The dataset: rows as _load_data leaves them (flags are booleans, rent   *)
(* is a number or NaN, bedrooms an integer).  The rows a dataset is drawn  *)
(* from cover equal scores, a missing rent, missing languages, and the     *)
(* placeholder, blank and missing accessibility_features.                  *)

Listing1 ==
  [id |-> 1, city |-> <<"A","t","l","a","n","t","a">>, state |-> <<"G","A">>,
   zip_code |-> <<"3","0","3","0","3">>, monthly_rent |-> {600}, bedrooms |-> 2,
   languages_spoken |-> <<"E","n","g","l","i","s","h",","," ","S","p","a","n","i","s","h">>,
   section8_accepted |-> TRUE, hud_approved |-> TRUE, low_income_eligible |-> TRUE,
   nearby_transit |-> TRUE, utilities_included |-> TRUE, pets_allowed |-> FALSE,
   accessibility_features |-> <<"R","a","m","p">>, income_limit_percent_ami |-> {60}]

Listing2 ==
  [id |-> 2, city |-> <<"A","t","l","a","n","t","a">>, state |-> <<"G","A">>,
   zip_code |-> <<"3","0","3","0","3">>, monthly_rent |-> {600}, bedrooms |-> 1,
   languages_spoken |-> <<"E","n","g","l","i","s","h",","," ","C","h","i","n","e","s","e">>,
   section8_accepted |-> TRUE, hud_approved |-> TRUE, low_income_eligible |-> TRUE,
   nearby_transit |-> TRUE, utilities_included |-> TRUE, pets_allowed |-> TRUE,
   accessibility_features |-> <<"R","a","m","p">>, income_limit_percent_ami |-> {60}]

Listing3 ==
  [id |-> 3, city |-> <<"D","e","c","a","t","u","r">>, state |-> <<"G","A">>,
   zip_code |-> <<"3","0","0","3","0">>, monthly_rent |-> {1250}, bedrooms |-> 3,
   languages_spoken |-> <<"E","n","g","l","i","s","h">>,
   section8_accepted |-> FALSE, hud_approved |-> FALSE, low_income_eligible |-> FALSE,
   nearby_transit |-> FALSE, utilities_included |-> FALSE, pets_allowed |-> TRUE,
   accessibility_features |-> <<"N","o","n","e">>, income_limit_percent_ami |-> {80}]

Listing4 ==
  [id |-> 4, city |-> <<"a","t","l","a","n","t","a">>, state |-> <<"g","a">>,
   zip_code |-> <<"3","0","3","1","0">>, monthly_rent |-> {}, bedrooms |-> 0,
   languages_spoken |-> NaNStr,
   section8_accepted |-> TRUE, hud_approved |-> FALSE, low_income_eligible |-> TRUE,
   nearby_transit |-> FALSE, utilities_included |-> FALSE, pets_allowed |-> FALSE,
   accessibility_features |-> NaNStr, income_limit_percent_ami |-> {}]

Listing5 ==
  [id |-> 5, city |-> <<"N","o","r","c","r","o","s","s">>, state |-> <<"G","A">>,
   zip_code |-> <<"3","0","0","7","1">>, monthly_rent |-> {650}, bedrooms |-> 2,
   languages_spoken |-> <<"K","o","r","e","a","n",","," ","V","i","e","t","n","a","m","e","s","e">>,
   section8_accepted |-> FALSE, hud_approved |-> TRUE, low_income_eligible |-> FALSE,
   nearby_transit |-> TRUE, utilities_included |-> TRUE, pets_allowed |-> TRUE,
   accessibility_features |-> <<" ">>, income_limit_percent_ami |-> {50}]

Listing6 ==
  [id |-> 6, city |-> <<"D","e","c","a","t","u","r">>, state |-> <<"G","A">>,
   zip_code |-> <<"3","0","0","3","0">>, monthly_rent |-> {1250}, bedrooms |-> 3,
   languages_spoken |-> <<"S","p","a","n","i","s","h",","," ","H","a","i","t","i","a","n"," ","C","r","e","o","l","e">>,
   section8_accepted |-> FALSE, hud_approved |-> FALSE, low_income_eligible |-> FALSE,
   nearby_transit |-> FALSE, utilities_included |-> FALSE, pets_allowed |-> FALSE,
   accessibility_features |-> <<"N","o","n","e">>, income_limit_percent_ami |-> {80}]

ListingPool == <<Listing1, Listing2, Listing3, Listing4, Listing5, Listing6>>

MaxListings == 2

Injective(s) == \A i, j \in 1..Len(s) : s[i] = s[j] => i = j

Increasing(s) == \A i, j \in 1..Len(s) : i < j => s[i] < s[j]

\* loaded datasets: at least one row (tests/test_housing_ai.py asserts
\* len(ai.df) > 0) and at most MaxListings, ids unique, rows in id order
\* (rows of equal score come out of the sort in either order, see TieBreaks)
Datasets ==
  UNION {{[i \in 1..n |-> ListingPool[s[i]]] :
            s \in {s \in [1..n -> 1..Len(ListingPool)] : Increasing(s)}}
           : n \in 1..MaxListings}

\* the orders a sort of n rows may leave equal keys in
TieBreaks(n) == {t \in [1..n -> 1..n] : Injective(t)}

----------------------------------------------------------------------------
(* Optional numbers                                                        *)

None == {}

Num(n) == {n}

IsNone(x) == x = {}

Val(x) == CHOOSE v \in x : TRUE

\* a comparison that reads a missing number as zero
LessEq_nan_as_zero(x, y) == ~IsNone(y) /\ (IF IsNone(x) THEN 0 ELSE Val(x)) <= Val(y)

\* column <= value on a float column: NaN compares False
LessEq(x, y) == ~IsNone(x) /\ ~IsNone(y) /\ Val(x) <= Val(y)

----------------------------------------------------------------------------
(* Scoring                                                                 *)

\* round(100 * max(0, 40 - rent / 30)): the affordability points in
\* hundredths; max(0, nan) is 0
Affordability(rent) ==
  IF IsNone(rent) THEN 0
  ELSE LET x == 12000 - 10 * Val(rent)
       IN  IF x <= 0 THEN 0 ELSE (x + 1) \div 3

\* accessibility and str(accessibility).strip() not in ("None", ""):
\* NaN is a truthy float and str(nan) is "nan"
AccessibilityBonus(a) ==
  IF a = NaNStr THEN TRUE
  ELSE a # <<>> /\ strip(a) \notin {<<"N","o","n","e">>, <<>>}

score_listing(row) ==
    Affordability(row.monthly_rent)
  + (IF row.low_income_eligible THEN 1500 ELSE 0)
  + (IF row.section8_accepted THEN 1000 ELSE 0)
  + (IF row.hud_approved THEN 1000 ELSE 0)
  + (IF row.nearby_transit THEN 500 ELSE 0)
  + (IF row.utilities_included THEN 500 ELSE 0)
  + (IF AccessibilityBonus(row.accessibility_features) THEN 500 ELSE 0)

----------------------------------------------------------------------------
(* HousingAI.search                                                        *)

\* the hard filters and the language filter, in the order search applies them
FilterNames ==
  <<"max_rent", "min_bedrooms", "city", "state", "zip_code", "section8",
    "hud_approved", "low_income_only", "needs_transit", "pets_allowed",
    "accessibility", "ami_percent", "language">>

\* a string parameter is truthy: not None and not empty
Truthy(s) == s # NoneStr /\ s # <<>>

\* the condition of the `if` that guards a filter
Active(name, p) ==
  CASE name = "max_rent"        -> ~IsNone(p.max_rent)
    [] name = "min_bedrooms"    -> p.min_bedrooms # 0
    [] name = "city"            -> Truthy(p.city)
    [] name = "state"           -> Truthy(p.state)
    [] name = "zip_code"        -> Truthy(p.zip_code)
    [] name = "section8"        -> p.section8
    [] name = "hud_approved"    -> p.hud_approved
    [] name = "low_income_only" -> p.low_income_only
    [] name = "needs_transit"   -> p.needs_transit
    [] name = "pets_allowed"    -> p.pets_allowed
    [] name = "accessibility"   -> p.accessibility
    [] name = "ami_percent"     -> ~IsNone(p.ami_percent)
    [] name = "language"        -> Truthy(p.language)

\* an alias lookup that forgets to lower-case the argument
normalised_case_sensitive(language) == AliasGet(language, language)

\* LANGUAGE_ALIASES.get(language.lower(), language)
normalised(language) == AliasGet(lower(language), language)

\* Series.str.contains(pat, case=False, na=False), the pattern compiled
str_contains(s, pat) == s # NaNStr /\ re_search_ignorecase(pat, s)

\* a bedroom test with the comparison turned around
bedrooms_mask_reversed(bedrooms, min_bedrooms) == bedrooms <= min_bedrooms

\* results["bedrooms"] >= min_bedrooms
bedrooms_mask(bedrooms, min_bedrooms) == bedrooms >= min_bedrooms

\* a city test that accepts any city name containing the argument
city_mask_substring(row_city, city) ==
  row_city # NaNStr /\ contains(lower(strip(city)), lower(row_city))

\* results["city"].str.lower() == city.strip().lower()
city_mask(row_city, city) ==
  row_city # NaNStr /\ lower(row_city) = lower(strip(city))

\* the boolean mask of a filter, for one row
Keep(name, p, row) ==
  CASE name = "max_rent"        -> LessEq(row.monthly_rent, p.max_rent)
    [] name = "min_bedrooms"    -> bedrooms_mask(row.bedrooms, p.min_bedrooms)
    [] name = "city"            -> city_mask(row.city, p.city)
    [] name = "state"           -> row.state # NaNStr
                                   /\ upper(row.state) = upper(strip(p.state))
    [] name = "zip_code"        -> row.zip_code = strip(p.zip_code)
    [] name = "section8"        -> row.section8_accepted
    [] name = "hud_approved"    -> row.hud_approved
    [] name = "low_income_only" -> row.low_income_eligible
    [] name = "needs_transit"   -> row.nearby_transit
    [] name = "pets_allowed"    -> row.pets_allowed
    [] name = "accessibility"   -> /\ row.accessibility_features # NaNStr
                                   /\ strip(row.accessibility_features) # <<"N","o","n","e">>
                                   /\ strip(row.accessibility_features) # <<>>
    [] name = "ami_percent"     -> LessEq(row.income_limit_percent_ami, p.ami_percent)
    [] name = "language"        -> str_contains(row.languages_spoken, normalised(p.language))

\* a filter that masks the whole dataset instead of the rows kept so far
apply_filter_on_df(name, p, d, idxs) ==
  IF Active(name, p) THEN SelectSeq([i \in 1..Len(d) |-> i], LAMBDA i : Keep(name, p, d[i]))
  ELSE idxs

\* results = results[mask], when the filter's `if` holds
apply_filter(name, p, d, idxs) ==
  IF Active(name, p) THEN SelectSeq(idxs, LAMBDA i : Keep(name, p, d[i])) ELSE idxs

RECURSIVE filter_pipeline(_, _, _, _)
filter_pipeline(names, p, d, idxs) ==
  IF names = <<>> THEN idxs
  ELSE filter_pipeline(Tail(names), p, d, apply_filter(Head(names), p, d, idxs))

\* str.contains compiles the pattern whatever the rows are
search_raises(p) == Truthy(p.language) /\ ~re_compiles(normalised(p.language))

\* a sort that leaves the rows in ascending order of score
sort_values_ascending(rows, tiebreak) ==
  LET n == Len(rows)
      Before(j, k) == \/ rows[j].score < rows[k].score
                      \/ rows[j].score = rows[k].score /\ tiebreak[j] < tiebreak[k]
      Rank(k) == Cardinality({j \in 1..n : Before(j, k)}) + 1
  IN  [r \in 1..n |-> rows[CHOOSE k \in 1..n : Rank(k) = r]]

\* results.sort_values("score", ascending=False): descending by score; the
\* default kind is quicksort, which is not stable, so rows of equal score
\* come out in an order the sort implementation fixes (tiebreak ranks the
\* positions of the array being sorted; the identity is the stable sort)
sort_values(rows, tiebreak) ==
  LET n == Len(rows)
      Before(j, k) == \/ rows[j].score > rows[k].score
                      \/ rows[j].score = rows[k].score /\ tiebreak[j] < tiebreak[k]
      Rank(k) == Cardinality({j \in 1..n : Before(j, k)}) + 1
  IN  [r \in 1..n |-> rows[CHOOSE k \in 1..n : Rank(k) = r]]

\* DataFrame.head(n): the first n rows; all but the last -n rows when n < 0
head(rows, n) ==
  IF n >= 0 THEN SubSeq(rows, 1, IF n < Len(rows) THEN n ELSE Len(rows))
  ELSE SubSeq(rows, 1, IF Len(rows) + n > 0 THEN Len(rows) + n ELSE 0)

\* the rows that pass the filters, as positions of the dataset
filtered(d, p) == filter_pipeline(FilterNames, p, d, [i \in 1..Len(d) |-> i])

\* search(**p) on dataset d: whether it raises, and the rows it returns
search(d, tiebreak, p) ==
  IF search_raises(p) THEN [raised |-> TRUE, rows |-> <<>>]
  ELSE LET idxs == filtered(d, p)
       IN  IF idxs = <<>> THEN [raised |-> FALSE, rows |-> <<>>]
           ELSE LET scored == [k \in 1..Len(idxs) |->
                                 [idx |-> idxs[k], score |-> score_listing(d[idxs[k]])]]
                IN  [raised |-> FALSE,
                     rows |-> head(sort_values(scored, tiebreak), p.top_n)]

----------------------------------------------------------------------------
(* HousingAI.parse_query                                                   *)

NoMatch == <<"<NoMatch>">>

\* \b at the gap before position i of q
WordBoundary(q, i) ==
  LET before == i > 1 /\ i - 1 <= Len(q) /\ IsWordChar(q[i-1])
      after  == i >= 1 /\ i <= Len(q) /\ IsWordChar(q[i])
  IN  before # after

AllDigits(q, i, k) == i + k - 1 <= Len(q) /\ \A j \in i..(i + k - 1) : IsDigit(q[j])

\* \b(\d{3,4})\b matches with the group starting at i and k digits long
RentMatchAt(q, i, k) ==
  WordBoundary(q, i) /\ AllDigits(q, i, k) /\ WordBoundary(q, i + k)

\* a rent pattern without the word boundaries: the leftmost three or four
\* digits, wherever they stand
rent_match_any_digits(q) ==
  IF \E i \in 1..Len(q) : AllDigits(q, i, 3)
  THEN LET i == CHOOSE i \in 1..Len(q) : AllDigits(q, i, 3) /\ \A j \in 1..(i-1) : ~AllDigits(q, j, 3)
       IN  IF AllDigits(q, i, 4) THEN SubSeq(q, i, i + 3) ELSE SubSeq(q, i, i + 2)
  ELSE NoMatch

\* re.search(r"\$?\b(\d{3,4})\b.*?(rent|month|budget|afford|per month)?", q):
\* group 1 of the leftmost match, four digits tried before three
rent_match(q) ==
  LET Hit(i) == RentMatchAt(q, i, 4) \/ RentMatchAt(q, i, 3)
  IN  IF \E i \in 1..Len(q) : Hit(i)
      THEN LET i == CHOOSE i \in 1..Len(q) : Hit(i) /\ \A j \in 1..(i-1) : ~Hit(j)
           IN  IF RentMatchAt(q, i, 4) THEN SubSeq(q, i, i + 3) ELSE SubSeq(q, i, i + 2)
      ELSE NoMatch

StartsWithAt(q, i, w) == i + Len(w) - 1 <= Len(q) /\ SubSeq(q, i, i + Len(w) - 1) = w

\* (\d)\s*(?:bed(?:room)?s?|br\b) matches with the digit at i
BedMatchAt(q, i) ==
  /\ IsDigit(q[i])
  /\ \E m \in 0..(Len(q) - i) :
       /\ \A j \in (i + 1)..(i + m) : IsSpace(q[j])
       /\ \/ StartsWithAt(q, i + m + 1, <<"b","e","d">>)
          \/ /\ StartsWithAt(q, i + m + 1, <<"b","r">>)
             /\ WordBoundary(q, i + m + 3)

\* re.search(r"(\d)\s*(?:bed(?:room)?s?|br\b)", q): group 1 of the leftmost match
bed_match(q) ==
  IF \E i \in 1..Len(q) : BedMatchAt(q, i)
  THEN LET i == CHOOSE i \in 1..Len(q) : BedMatchAt(q, i) /\ \A j \in 1..(i-1) : ~BedMatchAt(q, j)
       IN  <<q[i]>>
  ELSE NoMatch

cities ==
  << <<"a","t","l","a","n","t","a">>,
     <<"d","e","c","a","t","u","r">>,
     <<"n","o","r","c","r","o","s","s">>,
     <<"c","h","a","m","b","l","e","e">>,
     <<"s","a","n","d","y"," ","s","p","r","i","n","g","s">>,
     <<"c","o","l","l","e","g","e"," ","p","a","r","k">>,
     <<"b","r","o","o","k","h","a","v","e","n">>,
     <<"j","o","n","e","s","b","o","r","o">> >>

\* a lookup in which the last element of the list that occurs in q wins
FirstIn_last(words, q) ==
  IF \E i \in 1..Len(words) : contains(words[i], q)
  THEN CHOOSE i \in 1..Len(words) :
         contains(words[i], q) /\ \A j \in (i+1)..Len(words) : ~contains(words[j], q)
  ELSE 0

\* the first element of a list of words that occurs in q, as its index (0: none)
FirstIn(words, q) ==
  IF \E i \in 1..Len(words) : contains(words[i], q)
  THEN CHOOSE i \in 1..Len(words) :
         contains(words[i], q) /\ \A j \in 1..(i-1) : ~contains(words[j], q)
  ELSE 0

\* a keyword test that asks for every keyword of the rule
AnyIn_all(words, q) == \A w \in words : contains(w, q)

AnyIn(words, q) == \E w \in words : contains(w, q)

AliasKeys == [i \in 1..Len(LANGUAGE_ALIASES) |-> LANGUAGE_ALIASES[i][1]]

\* whether a rule of parse_query sets its key
ParseSets(k, q) ==
  CASE k = "max_rent"        -> rent_match(q) # NoMatch
    [] k = "min_bedrooms"    -> bed_match(q) # NoMatch
    [] k = "city"            -> FirstIn(cities, q) > 0
    [] k = "state"           -> \/ contains(<<" ","g","a"," ">>, q)
                                \/ contains(<<"g","e","o","r","g","i","a">>, q)
                                \/ endswith(q, <<" ","g","a">>)
    [] k = "section8"        -> AnyIn({<<"s","e","c","t","i","o","n"," ","8">>, <<"s","e","c","t","i","o","n","8">>, <<"v","o","u","c","h","e","r">>}, q)
    [] k = "hud_approved"    -> contains(<<"h","u","d">>, q)
    [] k = "low_income_only" -> AnyIn({<<"l","o","w"," ","i","n","c","o","m","e">>,
                                       <<"l","o","w","-","i","n","c","o","m","e">>,
                                       <<"a","f","f","o","r","d","a","b","l","e">>,
                                       <<"c","h","e","a","p">>,
                                       <<"s","u","b","s","i","d","i","z","e","d">>}, q)
    [] k = "needs_transit"   -> AnyIn({<<"t","r","a","n","s","i","t">>,
                                       <<"b","u","s">>,
                                       <<"m","a","r","t","a">>,
                                       <<"t","r","a","i","n">>,
                                       <<"p","u","b","l","i","c"," ","t","r","a","n","s","p","o","r","t">>}, q)
    [] k = "pets_allowed"    -> AnyIn({<<"p","e","t">>, <<"d","o","g">>, <<"c","a","t">>}, q)
    [] k = "accessibility"   -> AnyIn({<<"w","h","e","e","l","c","h","a","i","r">>,
                                       <<"a","c","c","e","s","s","i","b","l","e">>,
                                       <<"a","c","c","e","s","s","i","b","i","l","i","t","y">>,
                                       <<"d","i","s","a","b","i","l","i","t","y">>,
                                       <<"d","i","s","a","b","l","e","d">>}, q)
    [] k = "language"        -> FirstIn(AliasKeys, q) > 0

\* the value a rule of parse_query gives its key
ParseValue(k, q) ==
  CASE k = "max_rent"     -> Num(int(rent_match(q)))
    [] k = "min_bedrooms" -> int(bed_match(q))
    [] k = "city"         -> title(cities[FirstIn(cities, q)])
    [] k = "state"        -> <<"G","A">>
    [] k = "language"     -> LANGUAGE_ALIASES[FirstIn(AliasKeys, q)][2]
    [] OTHER              -> TRUE

ParseKeys ==
  {"max_rent", "min_bedrooms", "city", "state", "section8", "hud_approved",
   "low_income_only", "needs_transit", "pets_allowed", "accessibility", "language"}

\* parse_query(query): the dict of the keys whose rule fired
parse_query(query) ==
  LET q == lower(query)
  IN  [k \in {k \in ParseKeys : ParseSets(k, q)} |-> ParseValue(k, q)]

----------------------------------------------------------------------------
(* Parameters of search                                                    *)

ParamKeys ==
  {"max_rent", "min_bedrooms", "city", "state", "zip_code", "language",
   "section8", "hud_approved", "low_income_only", "needs_transit",
   "pets_allowed", "accessibility", "ami_percent", "top_n"}

\* the defaults of search's signature
DefaultParams ==
  [max_rent |-> None, min_bedrooms |-> 0, city |-> NoneStr, state |-> NoneStr,
   zip_code |-> NoneStr, language |-> NoneStr, section8 |-> FALSE,
   hud_approved |-> FALSE, low_income_only |-> FALSE, needs_transit |-> FALSE,
   pets_allowed |-> FALSE, accessibility |-> FALSE, ami_percent |-> None,
   top_n |-> 10]

\* search(**kwargs): the keyword arguments over the defaults
WithDefaults(kwargs) ==
  [k \in ParamKeys |-> IF k \in DOMAIN kwargs THEN kwargs[k] ELSE DefaultParams[k]]

capitalize(s) == [i \in 1..Len(s) |-> IF i = 1 THEN upper_char(s[i]) ELSE lower_char(s[i])]

\* the language arguments tried on their own: every alias key in three letter-casings,
\* the canonical names, a name with no alias, a pattern with a wildcard and
\* one with an unbalanced parenthesis
LanguageArgs ==
     {AliasKeys[i] : i \in 1..Len(AliasKeys)}
  \cup {upper(AliasKeys[i]) : i \in 1..Len(AliasKeys)}
  \cup {capitalize(AliasKeys[i]) : i \in 1..Len(AliasKeys)}
  \cup {LANGUAGE_ALIASES[i][2] : i \in 1..Len(LANGUAGE_ALIASES)}
  \cup {<<"U","r","d","u">>, <<"s","p","a","n",".","s","h">>, <<"s","p","a","n","i","s","h"," ","(">>}

\* the non-default values tried for each parameter
ArgValues(k) ==
  CASE k = "max_rent"     -> {Num(0), Num(700)}
    [] k = "min_bedrooms" -> {2}
    [] k = "city"         -> {<<>>, <<" "," ">>, <<" ","A","T","L","A","N","T","A"," ">>}
    [] k = "state"        -> {<<" ","g","a">>}
    [] k = "zip_code"     -> {<<"3","0","3","0","3"," ">>}
    [] k = "language"     -> {<<"S","p","a","n","i","s","h">>, <<"s","p","a","n","i","s","h"," ","(">>}
    [] k = "ami_percent"  -> {Num(60)}
    [] k = "top_n"        -> {0 - 1, 1}
    [] OTHER              -> {TRUE}

MaxActive == 2

\* the argument combinations tried: at most MaxActive parameters are given
\* a non-default value
RECURSIVE ParamsWith(_)
ParamsWith(n) ==
  IF n = 0 THEN {DefaultParams}
  ELSE LET prev == ParamsWith(n - 1)
       IN  prev \cup
           UNION {UNION {{[p EXCEPT ![k] = v] : v \in ArgValues(k)}
                           : k \in {k \in ParamKeys : p[k] = DefaultParams[k]}}
                    : p \in prev}

ParamSpace == ParamsWith(MaxActive)

\* the texts tried as queries
Queries ==
  { <<"1","0"," ","b","e","d","r","o","o","m"," ","a","p","a","r","t","m","e","n","t"," ","u","n","d","e","r"," ","$","1","0","0"," ","p","e","r"," ","m","o","n","t","h"," ","i","n"," ","A","t","l","a","n","t","a">>,
    <<"a","f","f","o","r","d","a","b","l","e"," ","h","o","u","s","i","n","g"," ","i","n"," ","A","t","l","a","n","t","a">>,
    <<"2"," ","b","e","d","r","o","o","m"," ","u","n","d","e","r"," ","$","9","0","0">>,
    <<"S","p","a","n","i","s","h"," ","s","p","e","a","k","i","n","g"," ","a","g","e","n","t">>,
    <<"s","e","c","t","i","o","n"," ","8"," ","h","o","u","s","i","n","g"," ","n","e","a","r"," ","M","A","R","T","A">>,
    <<"w","h","e","e","l","c","h","a","i","r"," ","a","c","c","e","s","s","i","b","l","e",","," ","p","e","t","s"," ","o","k",","," ","H","U","D",","," ","d","e","c","a","t","u","r"," ","g","a">>,
    <<"h","e","l","l","o">>,
    <<"3","b","r"," ","i","n"," ","C","h","a","m","b","l","e","e",","," ","m","a","n","d","a","r","i","n">> }

----------------------------------------------------------------------------
(* HousingAI.answer_query                                                  *)

NoSummary == [kind |-> "none", count |-> 0]

\* params["top_n"] = top_n
with_top_n(params, top_n) ==
  [k \in DOMAIN params \cup {"top_n"} |-> IF k = "top_n" THEN top_n ELSE params[k]]

\* a summary that always writes the "I found N listing(s)" header
answer_summary_always_found(res) ==
  IF res.raised THEN NoSummary ELSE [kind |-> "found", count |-> Len(res.rows)]

\* the summary: the fixed apology when results.empty, the "I found N
\* listing(s)" header with one line per row otherwise
answer_summary(res) ==
  IF res.raised THEN NoSummary
  ELSE IF res.rows = <<>> THEN [kind |-> "sorry", count |-> 0]
  ELSE [kind |-> "found", count |-> Len(res.rows)]

\* {"params": params, "results": results, "summary": summary}
answer_dict(params, res) ==
  [raised  |-> res.raised,
   keys    |-> DOMAIN params,
   params  |-> WithDefaults(params),
   results |-> res.rows,
   summary |-> answer_summary(res)]

\* results = self.search(**params), and the answer built from it
answer_params(d, tiebreak, params) ==
  answer_dict(params, search(d, tiebreak, WithDefaults(params)))

\* answer_query(query, top_n): parse, search, summarise
answer_query(d, tiebreak, query, top_n) ==
  answer_params(d, tiebreak, with_top_n(parse_query(query), top_n))

----------------------------------------------------------------------------
(* The state machine: a loaded engine answering one call at a time         *)

NoCall == [op |-> "none", params |-> DefaultParams, keys |-> {}, query |-> NoneStr]

\* the CSV source and the contact module while the engine answers: the
\* file is read already, no contact request is in progress
SourceRead ==
  source = [columns |-> {}, flag |-> [t |-> "nan", s |-> <<>>, n |-> 0],
            monthly_rent |-> [t |-> "nan", s |-> <<>>, n |-> 0],
            bedrooms |-> [t |-> "nan", s |-> <<>>, n |-> 0]]

ContactIdle ==
  /\ caller = [twilio_available |-> FALSE, twilio_sid |-> FALSE, twilio_token |-> FALSE,
               twilio_phone |-> FALSE, smtp_user |-> FALSE, smtp_password |-> FALSE]
  /\ contact = [op |-> "none", method |-> "", language |-> "",
                agent_phone |-> "", agent_email |-> "", from_address |-> ""]
  /\ sent = <<>>
  /\ message = [script |-> "", subject |-> "", body |-> ""]
  /\ outcome = [success |-> FALSE, error |-> "<none>"]

\* Chatbot.__init__: no results remembered, and no request being handled
ChatIdle ==
  /\ last_results = [set |-> FALSE, rows |-> <<>>]
  /\ reply = [kind |-> "none", n |-> 0]
  /\ handlers = [c \in {"client1", "client2"} |->
                   [pc |-> "idle", message |-> <<>>,
                    reply |-> [kind |-> "none", n |-> 0], listings |-> <<>>]]

OthersIdle == SourceRead /\ ContactIdle /\ ChatIdle

Init ==
  /\ df \in Datasets
  /\ tie \in TieBreaks(Len(df))
  /\ pc = "idle"
  /\ call = NoCall
  /\ results = <<>>
  /\ raised = FALSE
  /\ summary = NoSummary
  /\ OthersIdle

\* the call ends: its value, or its exception, is with the caller
Returns(op, query, ans) ==
  /\ results' = ans.results
  /\ raised' = ans.raised
  /\ summary' = ans.summary
  /\ call' = [op |-> op, params |-> ans.params, keys |-> ans.keys, query |-> query]
  /\ pc' = "returned"
  /\ UNCHANGED <<df, tie, others>>

search_value(p, res) ==
  [raised |-> res.raised, keys |-> {}, params |-> p, results |-> res.rows,
   summary |-> NoSummary]

\* a search that filters self.df itself instead of a copy of it
Search_in_place(p) ==
  /\ pc = "idle"
  /\ results' = search(df, tie, p).rows
  /\ raised' = search(df, tie, p).raised
  /\ summary' = NoSummary
  /\ call' = [op |-> "search", params |-> p, keys |-> {}, query |-> NoneStr]
  /\ pc' = "returned"
  /\ df' = IF search_raises(p) THEN df
           ELSE [k \in 1..Len(filtered(df, p)) |-> df[filtered(df, p)[k]]]
  /\ tie' \in TieBreaks(Len(df'))
  /\ UNCHANGED others

\* a call of search(**p), to its return or its exception
Search(p) ==
  /\ pc = "idle"
  /\ \E res \in {search(df, tie, p)} : Returns("search", NoneStr, search_value(p, res))

\* a call of answer_query(query, top_n), to its return or its exception
AnswerQuery(query, top_n) ==
  /\ pc = "idle"
  /\ \E ans \in {answer_query(df, tie, query, top_n)} : Returns("answer_query", query, ans)

\* the caller takes the value (or the exception) and the engine is idle again
Return ==
  /\ pc = "returned"
  /\ pc' = "idle"
  /\ call' = NoCall
  /\ results' = <<>>
  /\ raised' = FALSE
  /\ summary' = NoSummary
  /\ UNCHANGED <<df, tie, others>>

Next ==
  \/ pc = "idle" /\ \E p \in ParamSpace : Search(p)
  \/ pc = "idle" /\ \E language \in LanguageArgs, top_n \in {1, 10} :
                      Search([DefaultParams EXCEPT !.language = language, !.top_n = top_n])
  \/ pc = "idle" /\ \E query \in Queries, top_n \in {1, 5} : AnswerQuery(query, top_n)
  \/ Return

Spec == Init /\ [][Next]_vars

----------------------------------------------------------------------------
(* Properties                                                              *)

\* a call has returned a value
Returned == pc = "returned" /\ ~raised

\* the dataset row of a returned row
Row(r) == df[r.idx]

ResultIdx == {results[i].idx : i \in 1..Len(results)}

\* C1: every listing that search returns under max_rent = R has a rent, and
\* that rent is at most R; a listing whose rent is missing is never returned
C1_MaxRentRespected ==
  (Returned /\ ~IsNone(call.params.max_rent)) =>
     \A i \in 1..Len(results) :
        /\ ~IsNone(Row(results[i]).monthly_rent)
        /\ Val(Row(results[i]).monthly_rent) <= Val(call.params.max_rent)

\* C1 happens: a search with a rent cap returned a listing while the dataset
\* also held a listing without rent or one above the cap
C1_Witness ==
  /\ Returned /\ call.op = "search" /\ ~IsNone(call.params.max_rent)
  /\ results # <<>>
  /\ \E i \in 1..Len(df) : IsNone(df[i].monthly_rent)

\* C2: every listing that search returns under min_bedrooms = B has at
\* least B bedrooms
C2_MinBedroomsRespected ==
  Returned =>
     \A i \in 1..Len(results) : Row(results[i]).bedrooms >= call.params.min_bedrooms

\* C2 happens: a search with min_bedrooms = 2 returned a listing and left
\* out a smaller one
C2_Witness ==
  /\ Returned /\ call.op = "search" /\ call.params.min_bedrooms = 2
  /\ results # <<>>
  /\ \E i \in 1..Len(df) : df[i].bedrooms < 2

\* s and t are equal up to the case of their letters
EqualsIgnoreCase(s, t) ==
  Len(s) = Len(t) /\ \A i \in 1..Len(s) : upper_char(s[i]) = upper_char(t[i])

\* s is t with whitespace around it, up to the case of the letters
EqualsTrimmedIgnoreCase(s, t) ==
  \E a \in 1..(Len(s) + 1), b \in 0..Len(s) :
     /\ \A i \in 1..(a - 1) : IsSpace(s[i])
     /\ \A i \in (b + 1)..Len(s) : IsSpace(s[i])
     /\ EqualsIgnoreCase(SubSeq(s, a, b), t)

IsAliasArg(language) ==
  \E i \in 1..Len(LANGUAGE_ALIASES) : LANGUAGE_ALIASES[i][1] = lower(language)

CanonicalOf(language) ==
  LANGUAGE_ALIASES[CHOOSE i \in 1..Len(LANGUAGE_ALIASES) :
                      LANGUAGE_ALIASES[i][1] = lower(language)][2]

\* C4: a search by an alias key, in any letter-casing, returns the rows, in
\* the order, that the same search by the canonical name returns
C4_AliasSameAsCanonical ==
  (pc = "returned" /\ call.op = "search" /\ Truthy(call.params.language)
     /\ IsAliasArg(call.params.language)) =>
     LET canonical == search(df, tie, [call.params EXCEPT
                                         !.language = CanonicalOf(call.params.language)])
     IN  ~raised /\ ~canonical.raised /\ results = canonical.rows

\* C4 happens: a search by "MANDARIN" returned a listing
C4_Witness ==
  /\ Returned /\ call.op = "search"
  /\ call.params.language = <<"M","A","N","D","A","R","I","N">>
  /\ results # <<>>
  /\ Len(results) < Len(df)

\* C5: the rows of a result are in descending order of score
C5_SortedByScore ==
  Returned =>
     \A i \in 1..(Len(results) - 1) : results[i].score >= results[i + 1].score

\* C5 happens: a result of two rows or more of different scores, which the
\* dataset holds in the opposite order
C5_Witness ==
  /\ Returned
  /\ \E i \in 1..(Len(results) - 1) :
        /\ results[i].score > results[i + 1].score
        /\ results[i].idx > results[i + 1].idx

\* a listing satisfies every active predicate of the parameters
Satisfies(row, p) ==
  /\ ~IsNone(p.max_rent) => LessEq(row.monthly_rent, p.max_rent)
  /\ p.min_bedrooms # 0 => row.bedrooms >= p.min_bedrooms
  /\ Truthy(p.city) => city_mask(row.city, p.city)
  /\ Truthy(p.state) => Keep("state", p, row)
  /\ Truthy(p.zip_code) => Keep("zip_code", p, row)
  /\ p.section8 => row.section8_accepted
  /\ p.hud_approved => row.hud_approved
  /\ p.low_income_only => row.low_income_eligible
  /\ p.needs_transit => row.nearby_transit
  /\ p.pets_allowed => row.pets_allowed
  /\ p.accessibility => Keep("accessibility", p, row)
  /\ ~IsNone(p.ami_percent) => LessEq(row.income_limit_percent_ami, p.ami_percent)
  /\ Truthy(p.language) => Keep("language", p, row)

Matching == {i \in 1..Len(df) : Satisfies(df[i], call.params)}

\* C6: search returns at most top_n rows (none when top_n is below one), and
\* no row that passed the filters and was left out scores higher than a row
\* that was returned
C6_TopNCap ==
  (Returned /\ call.op = "search") =>
     /\ Len(results) <= (IF call.params.top_n >= 0 THEN call.params.top_n ELSE 0)
     /\ \A i \in Matching \ ResultIdx :
          \A k \in 1..Len(results) : score_listing(df[i]) <= results[k].score

\* C7: when no listing satisfies the filters, search returns no row, and
\* answer_query returns no row and the apology as its summary
C7_NoMatchIsEmpty ==
  (Returned /\ Matching = {}) =>
     /\ results = <<>>
     /\ call.op = "answer_query" => summary.kind = "sorry"

\* C7 happens: the query of ten bedrooms under $100 in Atlanta was answered
\* on a dataset that holds listings in Atlanta
C7_Witness ==
  /\ Returned /\ call.op = "answer_query"
  /\ {"max_rent", "min_bedrooms", "city", "top_n"} \subseteq call.keys
  /\ call.params.max_rent = Num(100)
  /\ \E i \in 1..Len(df) : df[i].city = <<"A","t","l","a","n","t","a">>
  /\ summary.kind = "sorry"

\* C8: rows of equal score are returned in the order the dataset holds them
C8_StableRanking ==
  Returned =>
     \A i, j \in 1..Len(results) :
        (i < j /\ results[i].score = results[j].score) => results[i].idx < results[j].idx

Reverse(s) == [i \in 1..Len(s) |-> s[Len(s) + 1 - i]]

SeqToSet(s) == {s[i] : i \in 1..Len(s)}

FlagParams == {"section8", "hud_approved", "low_income_only", "needs_transit", "pets_allowed"}

\* C9: the rows that pass the filters are the rows that satisfy every active
\* predicate, whatever the order the filters are applied in; a flag that is
\* not set removes no row
C9_FiltersAreConjunction ==
  Returned =>
     /\ SeqToSet(filtered(df, call.params)) = Matching
     /\ filter_pipeline(Reverse(FilterNames), call.params, df, [i \in 1..Len(df) |-> i])
          = [k \in 1..Cardinality(Matching) |->
               CHOOSE i \in Matching : Cardinality({j \in Matching : j < i}) = k - 1]
     /\ (call.params.top_n >= Len(df)) => ResultIdx = Matching
     /\ \A f \in FlagParams :
          ~call.params[f] => apply_filter(f, call.params, df, [i \in 1..Len(df) |-> i])
                               = [i \in 1..Len(df) |-> i]

\* C9 happens: a search with two active filters, one of them a flag,
\* returned a row and left out a row that only the flag excludes
C9_Witness ==
  /\ Returned /\ call.op = "search"
  /\ call.params.section8 /\ ~IsNone(call.params.max_rent)
  /\ results # <<>>
  /\ \E i \in 1..Len(df) :
        ~df[i].section8_accepted /\ LessEq(df[i].monthly_rent, call.params.max_rent)

\* C10: a call of search returns a value, whatever its arguments
C10_SearchNeverRaises ==
  (pc = "returned" /\ call.op = "search") => ~raised

\* the score the scoring rule states, in hundredths: 40 - rent/30 rounded to
\* two decimals and not below zero (zero without a rent), plus the bonuses,
\* the accessibility bonus going to a listing whose accessibility_features
\* is present, not blank and not "None"
StatedAffordability(rent) ==
  IF IsNone(rent) \/ Val(rent) >= 1200 THEN 0
  ELSE CHOOSE a \in 0..4000 :
         3 * a - (12000 - 10 * Val(rent)) \in {0 - 1, 0, 1}

StatedScore(row) ==
    StatedAffordability(row.monthly_rent)
  + (IF row.low_income_eligible THEN 1500 ELSE 0)
  + (IF row.section8_accepted THEN 1000 ELSE 0)
  + (IF row.hud_approved THEN 1000 ELSE 0)
  + (IF row.nearby_transit THEN 500 ELSE 0)
  + (IF row.utilities_included THEN 500 ELSE 0)
  + (IF /\ row.accessibility_features # NaNStr
        /\ strip(row.accessibility_features) \notin {<<>>, <<"N","o","n","e">>}
     THEN 500 ELSE 0)

\* C11: the score of every returned listing is the stated sum of the
\* affordability points and the six bonuses, and lies between 0 and 90
C11_ScoreFormula ==
  Returned =>
     \A i \in 1..Len(results) :
        /\ results[i].score = StatedScore(Row(results[i]))
        /\ results[i].score >= 0 /\ results[i].score <= 9000

----------------------------------------------------------------------------
(* The query parser on its own: parse_query applied to texts put together  *)
(* from a rent phrase, a bedroom phrase and a closing phrase               *)

RentPhrases ==
  {<<>>,
   <<"u","n","d","e","r"," ","$","8","0","0"," ","p","e","r"," ","m","o","n","t","h">>,
   <<"$","1",",","2","0","0"," ","b","u","d","g","e","t">>,
   <<"z","i","p"," ","3","0","3","0","3">>,
   <<"8","0","0","u","s","d"," ","m","a","x">>,
   <<"b","e","t","w","e","e","n"," ","9","5","0"," ","a","n","d"," ","1","1","0","0">>}

BedroomPhrases ==
  {<<>>,
   <<"2"," ","b","e","d","r","o","o","m">>,
   <<"1","0"," ","b","e","d","r","o","o","m">>,
   <<"3","B","R">>,
   <<"1"," ","b","r","i","c","k"," ","h","o","u","s","e">>,
   <<"4"," "," ","b","e","d","s">>}

ClosingPhrases ==
  {<<>>,
   <<"i","n"," ","A","t","l","a","n","t","a">>,
   <<"D","e","c","a","t","u","r"," ","o","r"," ","a","t","l","a","n","t","a"," ","g","a">>,
   <<"S","A","N","D","Y"," ","S","P","R","I","N","G","S">>,
   <<"s","e","c","t","i","o","n"," ","8"," ","v","o","u","c","h","e","r">>,
   <<"H","U","D"," ","n","e","a","r"," ","M","A","R","T","A">>,
   <<"l","o","w","-","i","n","c","o","m","e"," ","w","h","e","e","l","c","h","a","i","r"," ","p","e","t","s">>,
   <<"k","o","r","e","a","n"," ","o","r"," ","e","n","g","l","i","s","h">>,
   <<"h","a","i","t","i","a","n"," ","c","r","e","o","l","e">>,
   <<"b","u","s","i","n","e","s","s"," ","l","o","c","a","t","i","o","n">>,
   <<"h","e","l","l","o">>}

ParseTexts ==
  Queries \cup
  {rent \o <<" ">> \o bed \o <<" ">> \o closing :
     rent \in RentPhrases, bed \in BedroomPhrases, closing \in ClosingPhrases}

ParseInit ==
  /\ df = <<ListingPool[1]>>
  /\ tie = <<1>>
  /\ pc = "idle"
  /\ call = NoCall
  /\ results = <<>>
  /\ raised = FALSE
  /\ summary = NoSummary
  /\ OthersIdle

\* the dict parse_query returns; no statement of parse_query can raise on a str
parse_value(parsed) ==
  [raised |-> FALSE, keys |-> DOMAIN parsed, params |-> WithDefaults(parsed),
   results |-> <<>>, summary |-> NoSummary]

\* a call of parse_query(query), to its return
ParseQuery(query) ==
  /\ pc = "idle"
  /\ \E parsed \in {parse_query(query)} : Returns("parse_query", query, parse_value(parsed))

ParseNext ==
  \/ pc = "idle" /\ \E query \in ParseTexts : ParseQuery(query)
  \/ Return

ParseSpec == ParseInit /\ [][ParseNext]_vars

----------------------------------------------------------------------------
(* Properties of the query parser                                          *)

\* parse_query has returned
Parsed == pc = "returned" /\ call.op = "parse_query"

\* w occurs in q at position p, whatever the case of the letters
OccursAt(w, q, p) ==
  /\ p + Len(w) - 1 <= Len(q)
  /\ \A i \in 1..Len(w) : upper_char(q[p + i - 1]) = upper_char(w[i])

Occurs(w, q) == \E p \in 1..Len(q) : OccursAt(w, q, p)

\* the characters i..j of q are a number of n digits standing as a word of
\* its own
IsNumberAt(q, i, n) ==
  /\ i + n - 1 <= Len(q)
  /\ \A k \in i..(i + n - 1) : IsDigit(q[k])
  /\ i = 1 \/ ~IsWordChar(q[i - 1])
  /\ i + n - 1 = Len(q) \/ ~IsWordChar(q[i + n])

\* where the 3-4 digit numbers of q start
RentNumbers(q) == {i \in 1..Len(q) : IsNumberAt(q, i, 3) \/ IsNumberAt(q, i, 4)}

Min(S) == CHOOSE x \in S : \A y \in S : x <= y

NumberAt(q, i) == IF IsNumberAt(q, i, 4) THEN SubSeq(q, i, i + 3) ELSE SubSeq(q, i, i + 2)

StatedMaxRent(q, numbers, keys, params) ==
  IF numbers = {} THEN "max_rent" \notin keys
  ELSE /\ "max_rent" \in keys
       /\ params.max_rent = Num(int(NumberAt(q, Min(numbers))))

\* C12: parse_query sets max_rent to the first 3-4 digit number of the text,
\* with or without a "$" before it, and leaves max_rent out when the text
\* has no such number
C12_MaxRentIsFirstNumber ==
  Parsed => StatedMaxRent(call.query, RentNumbers(call.query), call.keys, call.params)

\* a rent is parsed from a "$" amount that is not the first digit of the text
C12_Witness ==
  /\ Parsed
  /\ "max_rent" \in call.keys
  /\ \E i \in RentNumbers(call.query) :
        /\ i = Min(RentNumbers(call.query))
        /\ i > 1 /\ call.query[i - 1] = "$"
        /\ \E j \in 1..(i - 1) : IsDigit(call.query[j])

\* a bedroom word starts at position p of q
BedroomWordAt(q, p) ==
  \/ OccursAt(<<"b","e","d">>, q, p)
  \/ OccursAt(<<"b","r">>, q, p) /\ (p + 2 > Len(q) \/ ~IsWordChar(q[p + 2]))

\* the number i..j of q is a bedroom count: a whole run of digits with,
\* after optional whitespace, a bedroom word
IsBedroomCount(q, i, j) ==
  /\ i <= j
  /\ \A k \in i..j : IsDigit(q[k])
  /\ i = 1 \/ ~IsDigit(q[i - 1])
  /\ \E p \in (j + 1)..Len(q) :
        /\ \A k \in (j + 1)..(p - 1) : IsSpace(q[k])
        /\ BedroomWordAt(q, p)

BedroomCounts(q) ==
  {c \in (1..Len(q)) \X (1..Len(q)) : IsBedroomCount(q, c[1], c[2])}

FirstCount(counts) == CHOOSE c \in counts : \A d \in counts : c[2] <= d[2]

StatedMinBedrooms(q, counts, keys, params) ==
  IF counts = {} THEN "min_bedrooms" \notin keys
  ELSE /\ "min_bedrooms" \in keys
       /\ params.min_bedrooms = int(SubSeq(q, FirstCount(counts)[1], FirstCount(counts)[2]))

\* C13: parse_query sets min_bedrooms to the bedroom count the text states,
\* the number standing before "bed", "bedroom(s)" or "br"
C13_MinBedroomsIsStatedCount ==
  Parsed => StatedMinBedrooms(call.query, BedroomCounts(call.query), call.keys, call.params)

CityNames ==
  << <<"A","t","l","a","n","t","a">>,
     <<"D","e","c","a","t","u","r">>,
     <<"N","o","r","c","r","o","s","s">>,
     <<"C","h","a","m","b","l","e","e">>,
     <<"S","a","n","d","y"," ","S","p","r","i","n","g","s">>,
     <<"C","o","l","l","e","g","e"," ","P","a","r","k">>,
     <<"B","r","o","o","k","h","a","v","e","n">>,
     <<"J","o","n","e","s","b","o","r","o">> >>

CitiesIn(q) == {i \in 1..Len(CityNames) : Occurs(CityNames[i], q)}

StatedCity(found, keys, params) ==
  IF found = {} THEN "city" \notin keys
  ELSE "city" \in keys /\ params.city = CityNames[Min(found)]

\* C14: parse_query sets city to the title-cased name of the first city of
\* the known list that occurs in the text in any letter case, and leaves
\* city out when none occurs
C14_CityIsFirstKnownCity ==
  Parsed => StatedCity(CitiesIn(call.query), call.keys, call.params)

\* two known cities occur and the later one of the list stands first in the text
C14_Witness ==
  /\ Parsed
  /\ "city" \in call.keys
  /\ \E i, j \in CitiesIn(call.query), p \in 1..Len(call.query) :
        /\ i < j
        /\ OccursAt(CityNames[j], call.query, p)
        /\ \A r \in 1..p : ~OccursAt(CityNames[i], call.query, r)
        /\ call.params.city = CityNames[i]

FlagKeys ==
  {"section8", "hud_approved", "low_income_only", "needs_transit",
   "pets_allowed", "accessibility"}

StatedKeywords ==
  [section8 |-> {<<"s","e","c","t","i","o","n"," ","8">>, <<"s","e","c","t","i","o","n","8">>, <<"v","o","u","c","h","e","r">>},
   hud_approved |-> {<<"h","u","d">>},
   low_income_only |-> {<<"l","o","w"," ","i","n","c","o","m","e">>, <<"l","o","w","-","i","n","c","o","m","e">>, <<"a","f","f","o","r","d","a","b","l","e">>, <<"c","h","e","a","p">>, <<"s","u","b","s","i","d","i","z","e","d">>},
   needs_transit |-> {<<"t","r","a","n","s","i","t">>, <<"b","u","s">>, <<"m","a","r","t","a">>, <<"t","r","a","i","n">>, <<"p","u","b","l","i","c"," ","t","r","a","n","s","p","o","r","t">>},
   pets_allowed |-> {<<"p","e","t">>, <<"d","o","g">>, <<"c","a","t">>},
   accessibility |-> {<<"w","h","e","e","l","c","h","a","i","r">>, <<"a","c","c","e","s","s","i","b","l","e">>, <<"a","c","c","e","s","s","i","b","i","l","i","t","y">>, <<"d","i","s","a","b","i","l","i","t","y">>, <<"d","i","s","a","b","l","e","d">>}]

KeywordIn(k, q) == \E w \in StatedKeywords[k] : Occurs(w, q)

AliasesIn(q) == {i \in 1..Len(LANGUAGE_ALIASES) : Occurs(LANGUAGE_ALIASES[i][1], q)}

\* nothing in q that a rule of the parser looks for
NoSignal(q) ==
  /\ \A i \in 1..Len(q) : ~IsDigit(q[i])
  /\ CitiesIn(q) = {}
  /\ AliasesIn(q) = {}
  /\ \A k \in FlagKeys : ~KeywordIn(k, q)
  /\ ~Occurs(<<" ","g","a">>, q)
  /\ ~Occurs(<<"g","e","o","r","g","i","a">>, q)

\* C15: parse_query never fails; a flag key is in the result, with the value
\* true, exactly when one of its keywords occurs in the text, and a text
\* with no signal yields the empty mapping
C15_FlagsFollowKeywords ==
  Parsed =>
     /\ ~raised
     /\ call.keys \subseteq ParseKeys
     /\ \A k \in FlagKeys :
           /\ k \in call.keys <=> KeywordIn(k, call.query)
           /\ k \in call.keys => call.params[k] = TRUE
     /\ NoSignal(call.query) => call.keys = {}

\* a text with several flags, and the keyword of one of them inside a longer word
C15_Witness ==
  /\ Parsed
  /\ {"needs_transit", "pets_allowed"} \subseteq call.keys
  /\ "section8" \notin call.keys
  /\ Occurs(<<"b","u","s","i","n","e","s","s">>, call.query)

StatedLanguage(found, keys, params) ==
  IF found = {} THEN "language" \notin keys
  ELSE "language" \in keys /\ params.language = LANGUAGE_ALIASES[Min(found)][2]

\* C16: parse_query sets language to the canonical name of the first alias
\* key, in the order of the alias table, that occurs in the text
C16_LanguageIsFirstAlias ==
  Parsed => StatedLanguage(AliasesIn(call.query), call.keys, call.params)

\* two aliases of different languages occur, the later one of the table
\* first in the text
C16_Witness ==
  /\ Parsed
  /\ "language" \in call.keys
  /\ \E i, j \in AliasesIn(call.query), p \in 1..Len(call.query) :
        /\ i < j
        /\ LANGUAGE_ALIASES[i][2] # LANGUAGE_ALIASES[j][2]
        /\ OccursAt(LANGUAGE_ALIASES[j][1], call.query, p)
        /\ \A r \in 1..p : ~OccursAt(LANGUAGE_ALIASES[i][1], call.query, r)
        /\ call.params.language = LANGUAGE_ALIASES[i][2]

----------------------------------------------------------------------------
(* Loading the dataset: _load_data on a CSV source of one row.  A cell is  *)
(* the value pd.read_csv gives it: a string, a bool, an integer, a float   *)
(* or NaN, written [t |-> type, s |-> text, n |-> number].                 *)

StrCell(s) == [t |-> "str", s |-> s, n |-> 0]

BoolCell(b) == [t |-> "bool", s |-> <<>>, n |-> IF b THEN 1 ELSE 0]

IntCell(n) == [t |-> "int", s |-> <<>>, n |-> n]

FloatCell(n) == [t |-> "float", s |-> <<>>, n |-> n]

NaNCell == [t |-> "nan", s |-> <<>>, n |-> 0]

RequiredColumns ==
  {"id", "address", "city", "state", "zip_code", "monthly_rent", "bedrooms",
   "agent_name", "agent_phone", "agent_email", "languages_spoken",
   "section8_accepted", "hud_approved", "low_income_eligible",
   "nearby_transit", "utilities_included", "pets_allowed",
   "accessibility_features", "income_limit_percent_ami"}

\* the columns _load_data passes through _parse_bool
FlagColumns ==
  {"section8_accepted", "hud_approved", "low_income_eligible",
   "nearby_transit", "utilities_included", "pets_allowed"}

\* _parse_bool(value)
parse_bool(value) ==
  IF value.t = "none" THEN FALSE
  ELSE IF value.t = "nan" THEN FALSE
  ELSE IF value.t = "bool" THEN value.n = 1
  ELSE IF value.t = "str"
       THEN lower(strip(value.s)) \in {<<"y","e","s">>, <<"t","r","u","e">>, <<"1">>}
  ELSE value.n # 0

\* pd.to_numeric(value, errors="coerce"): the number, NaN for what is none
to_numeric(value) ==
  IF value.t \in {"int", "float", "bool"} THEN Num(value.n)
  ELSE IF /\ value.t = "str" /\ value.s # <<>>
          /\ \A i \in 1..Len(value.s) : IsDigit(value.s[i])
       THEN Num(int(value.s))
  ELSE None

\* .fillna(0).astype(int)
fillna_int(x) == IF IsNone(x) THEN 0 ELSE Val(x)

\* the row of the frame _load_data returns, over the columns it rewrites;
\* every flag column of the source holds the cell src.flag
load_row(src) ==
  [c \in (FlagColumns \cap src.columns) \cup {"monthly_rent", "bedrooms"} |->
     IF c = "monthly_rent" THEN to_numeric(src.monthly_rent)
     ELSE IF c = "bedrooms" THEN fillna_int(to_numeric(src.bedrooms))
     ELSE parse_bool(src.flag)]

\* _load_data(): df["monthly_rent"] and df["bedrooms"] raise KeyError when
\* the column is not there; a flag column that is not there is skipped
load_data(src) ==
  IF {"monthly_rent", "bedrooms"} \subseteq src.columns
  THEN [raised |-> FALSE, df |-> <<load_row(src)>>]
  ELSE [raised |-> TRUE, df |-> <<>>]

\* the cells tried in the flag columns
RawFlags ==
  {StrCell(<<"Y","e","s">>), StrCell(<<" ","T","R","U","E"," ">>), StrCell(<<"1">>), StrCell(<<"N","o">>), StrCell(<<"y">>), StrCell(<<" ">>),
   BoolCell(TRUE), BoolCell(FALSE), IntCell(0), IntCell(1), IntCell(2), FloatCell(1), NaNCell}

RawRents == {IntCell(600), StrCell(<<"a","b","c">>), NaNCell}

RawBedrooms == {IntCell(2), StrCell(<<"t","w","o">>), NaNCell}

\* the column sets tried: all the required columns, or all but one
ColumnSets == {RequiredColumns} \cup {RequiredColumns \ {c} : c \in RequiredColumns}

Sources ==
  [columns : ColumnSets, flag : RawFlags, monthly_rent : RawRents, bedrooms : RawBedrooms]

LoadInit ==
  /\ source \in Sources
  /\ df = <<>>
  /\ tie = <<>>
  /\ pc = "idle"
  /\ call = NoCall
  /\ results = <<>>
  /\ raised = FALSE
  /\ summary = NoSummary
  /\ ContactIdle
  /\ ChatIdle

\* HousingAI(data_path): self.df = self._load_data(), or its exception
Load ==
  /\ pc = "idle"
  /\ df = <<>>
  /\ df' = load_data(source).df
  /\ raised' = load_data(source).raised
  /\ tie' \in TieBreaks(Len(df'))
  /\ call' = [NoCall EXCEPT !.op = "_load_data"]
  /\ pc' = "returned"
  /\ UNCHANGED <<results, summary, others>>

LoadNext ==
  \/ Load
  \/ Return

LoadSpec == LoadInit /\ [][LoadNext]_vars

----------------------------------------------------------------------------
(* Properties of loading                                                   *)

\* _load_data has returned, with a frame or with an exception
LoadEnded == pc = "returned" /\ call.op = "_load_data"

\* the stated coercion: native true, or "yes", "true" or "1" after trimming
\* and lower-casing
StatedBool(value) ==
  \/ value.t = "bool" /\ value.n = 1
  \/ /\ value.t = "str"
     /\ \E w \in {<<"y","e","s">>, <<"t","r","u","e">>, <<"1">>} : EqualsTrimmedIgnoreCase(value.s, w)

\* C17: after load every boolean flag field is true or false, and it is true
\* exactly when the raw value is native true or one of the strings "yes",
\* "true", "1" after trimming and lower-casing
C17_BooleanCoercion ==
  (LoadEnded /\ ~raised) =>
     \A c \in FlagColumns \cap source.columns :
        /\ df[1][c] \in BOOLEAN
        /\ df[1][c] = StatedBool(source.flag)

\* C18: loading a source that lacks one of the required columns fails
C18_MissingColumnFails ==
  (LoadEnded /\ source.columns # RequiredColumns) => raised

----------------------------------------------------------------------------
(* The contact module (src/src/agent_caller.py).  A rendered text is known *)
(* by the language of the template it was rendered from; a credential is   *)
(* known by whether it is set; the transport (Twilio, SMTP) accepts a      *)
(* message or raises.                                                      *)

\* the languages that have a call script
GREETINGS == {"English", "Spanish", "French", "Amharic"}

\* the languages that have an email subject
EMAIL_SUBJECTS == {"English", "Spanish", "French", "Amharic"}

\* the languages that have an email body
EMAIL_BODIES == {"English", "Spanish"}

\* templates.get(preferred_language, templates["English"])
template_get(templates, preferred_language) ==
  IF preferred_language \in templates THEN preferred_language ELSE "English"

\* build_call_script(listing, user_name, user_phone, preferred_language)
build_call_script(preferred_language) ==
  template_get(GREETINGS, preferred_language)

\* build_email(...): {"subject": ..., "body": ...}
build_email(preferred_language) ==
  [subject |-> template_get(EMAIL_SUBJECTS, preferred_language),
   body    |-> template_get(EMAIL_BODIES, preferred_language)]

NoError == "<none>"

\* a result dict, the send attempts made for it, and whether an exception
\* left the operation
Result(success, error, attempts) ==
  [raised |-> FALSE, success |-> success, error |-> error, attempts |-> attempts]

Attempt(channel, transport) == [channel |-> channel, accepted |-> transport = "accepted"]

twilio_configured(c) == c.twilio_sid /\ c.twilio_token /\ c.twilio_phone

\* a Twilio request that is made a second time when the first one raised
twilio_send_retry(c, channel, transport) ==
  IF ~c.twilio_available THEN Result(FALSE, "Twilio not available.", <<>>)
  ELSE IF ~twilio_configured(c)
       THEN Result(FALSE, "Twilio credentials not configured.", <<>>)
  ELSE IF transport = "accepted"
       THEN Result(TRUE, NoError, <<Attempt(channel, transport)>>)
  ELSE Result(FALSE, "str(exc)", <<Attempt(channel, transport), Attempt(channel, transport)>>)

\* call_agent(agent_phone, script) and send_sms(agent_phone, message): the
\* two early returns, then the Twilio request inside try / except Exception
twilio_send(c, channel, transport) ==
  IF ~c.twilio_available THEN Result(FALSE, "Twilio not available.", <<>>)
  ELSE IF ~twilio_configured(c)
       THEN Result(FALSE, "Twilio credentials not configured.", <<>>)
  ELSE IF transport = "accepted"
       THEN Result(TRUE, NoError, <<Attempt(channel, transport)>>)
  ELSE Result(FALSE, "str(exc)", <<Attempt(channel, transport)>>)

call_agent(c, transport) == twilio_send(c, "call", transport)

send_sms(c, transport) == twilio_send(c, "sms", transport)

\* a send_email whose transport error is not caught
send_email_uncaught(c, from_address, transport) ==
  IF ~((from_address # "" \/ c.smtp_user) /\ c.smtp_password)
  THEN Result(FALSE, "SMTP credentials not configured.", <<>>)
  ELSE IF transport = "accepted"
       THEN Result(TRUE, NoError, <<Attempt("email", transport)>>)
  ELSE [Result(FALSE, NoError, <<Attempt("email", transport)>>) EXCEPT !.raised = TRUE]

\* send_email(to_address, subject, body, from_address): sender is
\* from_address or smtp_user, smtp_host has a default and is never empty;
\* then the SMTP session inside try / except Exception
send_email(c, from_address, transport) ==
  IF ~((from_address # "" \/ c.smtp_user) /\ c.smtp_password)
  THEN Result(FALSE, "SMTP credentials not configured.", <<>>)
  ELSE IF transport = "accepted"
       THEN Result(TRUE, NoError, <<Attempt("email", transport)>>)
  ELSE Result(FALSE, "str(exc)", <<Attempt("email", transport)>>)

\* the texts contact_agent_for_listing renders for the method
contact_message(method, agent_email, preferred_language) ==
  IF method \in {"call", "sms"}
  THEN [script |-> build_call_script(preferred_language), subject |-> "", body |-> ""]
  ELSE IF agent_email = "" THEN [script |-> "", subject |-> "", body |-> ""]
  ELSE [script |-> "", subject |-> build_email(preferred_language).subject,
        body |-> build_email(preferred_language).body]

\* contact_agent_for_listing(listing, ..., preferred_language, method)
contact_agent_for_listing(c, method, agent_email, transport) ==
  IF method = "call" THEN call_agent(c, transport)
  ELSE IF method = "sms" THEN send_sms(c, transport)
  ELSE IF agent_email = "" THEN Result(FALSE, "No agent email for this listing.", <<>>)
  ELSE send_email(c, "", transport)

\* the module as constructed: whether the twilio package is there and which
\* credentials the arguments or the environment give
Callers ==
  [twilio_available : BOOLEAN, twilio_sid : BOOLEAN, twilio_token : BOOLEAN,
   twilio_phone : BOOLEAN, smtp_user : BOOLEAN, smtp_password : BOOLEAN]

Languages == {"English", "Spanish", "French", "Amharic", "Klingon", "spanish"}

Methods == {"call", "sms", "email", "fax"}

\* the agent_email of a listing: an address, the empty string, or NaN
AgentEmails == {"agent@example.com", "", "<NaN>"}

AgentPhones == {"+14045550101", ""}

Transports == {"accepted", "error"}

ContactInit ==
  /\ caller \in Callers
  /\ contact = [op |-> "none", method |-> "", language |-> "",
                agent_phone |-> "", agent_email |-> "", from_address |-> ""]
  /\ sent = <<>>
  /\ message = [script |-> "", subject |-> "", body |-> ""]
  /\ outcome = [success |-> FALSE, error |-> NoError]
  /\ df = <<ListingPool[1]>>
  /\ tie = <<1>>
  /\ pc = "idle"
  /\ call = NoCall
  /\ results = <<>>
  /\ raised = FALSE
  /\ summary = NoSummary
  /\ SourceRead
  /\ ChatIdle

\* a contact operation ends: its result dict, or its exception, is with the
\* caller
ContactReturns(request, rendered, res) ==
  /\ contact' = request
  /\ message' = rendered
  /\ outcome' = [success |-> res.success, error |-> res.error]
  /\ sent' = sent \o res.attempts
  /\ raised' = res.raised
  /\ pc' = "returned"
  /\ UNCHANGED <<df, tie, call, results, summary, source, caller, chat>>

Request(op, method, language, agent_phone, agent_email, from_address) ==
  [op |-> op, method |-> method, language |-> language,
   agent_phone |-> agent_phone, agent_email |-> agent_email,
   from_address |-> from_address]

Unsent == Result(FALSE, NoError, <<>>)

\* a call of build_call_script
BuildCallScript(language) ==
  /\ pc = "idle"
  /\ ContactReturns(Request("build_call_script", "", language, "", "", ""),
                    [script |-> build_call_script(language), subject |-> "", body |-> ""],
                    Unsent)

\* a call of build_email
BuildEmail(language) ==
  /\ pc = "idle"
  /\ ContactReturns(Request("build_email", "", language, "", "", ""),
                    [script |-> "", subject |-> build_email(language).subject,
                     body |-> build_email(language).body],
                    Unsent)

\* a call of call_agent(agent_phone, script)
CallAgent(agent_phone, transport) ==
  /\ pc = "idle"
  /\ ContactReturns(Request("call_agent", "call", "", agent_phone, "", ""),
                    message, call_agent(caller, transport))

\* a call of send_sms(agent_phone, message)
SendSms(agent_phone, transport) ==
  /\ pc = "idle"
  /\ ContactReturns(Request("send_sms", "sms", "", agent_phone, "", ""),
                    message, send_sms(caller, transport))

\* a call of send_email(to_address, subject, body, from_address)
SendEmail(to_address, from_address, transport) ==
  /\ pc = "idle"
  /\ ContactReturns(Request("send_email", "email", "", "", to_address, from_address),
                    message, send_email(caller, from_address, transport))

\* a call of contact_agent_for_listing(listing, ..., preferred_language, method)
ContactAgentForListing(agent_phone, agent_email, language, method, transport) ==
  /\ pc = "idle"
  /\ ContactReturns(Request("contact_agent_for_listing", method, language,
                            agent_phone, agent_email, ""),
                    contact_message(method, agent_email, language),
                    contact_agent_for_listing(caller, method, agent_email, transport))

\* the caller takes the result and the module is idle again
ContactReturn ==
  /\ pc = "returned"
  /\ pc' = "idle"
  /\ raised' = FALSE
  /\ contact' = [op |-> "none", method |-> "", language |-> "",
                 agent_phone |-> "", agent_email |-> "", from_address |-> ""]
  /\ sent' = <<>>
  /\ message' = [script |-> "", subject |-> "", body |-> ""]
  /\ outcome' = [success |-> FALSE, error |-> NoError]
  /\ UNCHANGED <<df, tie, call, results, summary, source, caller, chat>>

ContactNext ==
  \/ \E language \in Languages : BuildCallScript(language)
  \/ \E language \in Languages : BuildEmail(language)
  \/ \E agent_phone \in AgentPhones, transport \in Transports :
        CallAgent(agent_phone, transport)
  \/ \E agent_phone \in AgentPhones, transport \in Transports :
        SendSms(agent_phone, transport)
  \/ \E to_address \in AgentEmails, from_address \in {"", "me@example.com"},
        transport \in Transports :
        SendEmail(to_address, from_address, transport)
  \/ \E agent_phone \in AgentPhones, agent_email \in AgentEmails,
        language \in Languages, method \in Methods, transport \in Transports :
        ContactAgentForListing(agent_phone, agent_email, language, method, transport)
  \/ ContactReturn

ContactSpec == ContactInit /\ [][ContactNext]_vars

----------------------------------------------------------------------------
(* Properties of the contact module                                        *)

ContactOps == {"call_agent", "send_sms", "send_email", "contact_agent_for_listing"}

\* a contact operation has ended
Contacted == pc = "returned" /\ contact.op \in ContactOps

\* the request goes by email
ByEmail == contact.method \notin {"call", "sms"}

\* the credentials of the request's channel are not all there
MissingCredentials ==
  IF ByEmail
  THEN ~caller.smtp_password \/ (~caller.smtp_user /\ contact.from_address = "")
  ELSE ~caller.twilio_available \/ ~caller.twilio_sid \/ ~caller.twilio_token
       \/ ~caller.twilio_phone

\* the transport was asked and raised
TransportError == \E i \in 1..Len(sent) : ~sent[i].accepted

\* the transport was asked and took the message
TransportAccepted == sent # <<>> /\ \A i \in 1..Len(sent) : sent[i].accepted

\* C19: a contact operation never raises; with missing credentials, a
\* missing agent email or a transport error its result has success false
\* and an error string, and success is true only when the transport
\* accepted the message
C19_ContactNeverRaises ==
  Contacted =>
     /\ ~raised
     /\ MissingCredentials => ~outcome.success
     /\ (contact.op = "contact_agent_for_listing" /\ ByEmail /\ contact.agent_email = "")
           => ~outcome.success
     /\ TransportError => ~outcome.success
     /\ ~outcome.success => outcome.error # NoError
     /\ outcome.success => TransportAccepted

\* an email request with credentials whose transport raised
C19_Witness ==
  /\ Contacted
  /\ contact.op = "contact_agent_for_listing"
  /\ ByEmail
  /\ ~MissingCredentials
  /\ TransportError
  /\ ~outcome.success

\* C20: a rendered message is in one language, the requested one when it is
\* supported and English otherwise: the subject and the body of build_email
\* are in the same language, the one build_call_script uses for the request
C20_OneLanguagePerMessage ==
  (pc = "returned" /\ contact.op = "build_email") =>
     /\ message.subject = message.body
     /\ message.body = build_call_script(contact.language)
     /\ message.body = (IF contact.language \in GREETINGS THEN contact.language ELSE "English")

----------------------------------------------------------------------------
(* Calls leave the dataset alone                                           *)

IsResult(res, r, rows) == r = res.raised /\ rows = res.rows

\* C21: no call of search or answer_query (which parses its text) changes
\* the loaded dataset, and the value a call returns is the value its
\* arguments give on the dataset as loaded, whatever calls came before
C21_CallsLeaveDatasetAlone ==
  [][/\ df' = df
     /\ (pc' = "returned" /\ call'.op \in {"search", "answer_query"})
          => IsResult(search(df, tie, call'.params), raised', results')]_vars

\* a search that dropped a listing has returned, and the dataset still has it
C21_Witness ==
  /\ Returned
  /\ call.op \in {"search", "answer_query"}
  /\ results # <<>>
  /\ Len(results) < Len(df)
  /\ call.params.top_n >= Len(df)

----------------------------------------------------------------------------
(* The language filter as a literal substring test                         *)

\* the alias-table value for the lower-cased s, or s itself
StatedCanon(s) == IF IsAliasArg(s) THEN CanonicalOf(s) ELSE s

SpeaksLiterally(row, name) ==
  row.languages_spoken # NaNStr /\ Occurs(name, row.languages_spoken)

\* C22: a search by language alone keeps exactly the listings whose
\* languages_spoken contains the canonical name as a literal substring in
\* any letter case; listings without languages_spoken are left out
C22_LanguageIsLiteralSubstring ==
  (/\ pc = "returned" /\ call.op = "search"
   /\ Truthy(call.params.language)
   /\ call.params = [DefaultParams EXCEPT !.language = call.params.language])
  => /\ ~raised
     /\ ResultIdx = {i \in 1..Len(df) :
                       SpeaksLiterally(df[i], StatedCanon(call.params.language))}

----------------------------------------------------------------------------
(* At most one send per contact request                                    *)

\* the channel a method of contact_agent_for_listing sends by
ChannelOf(method) == IF method \in {"call", "sms"} THEN method ELSE "email"

\* C23: contact_agent_for_listing makes at most one send attempt, on the
\* channel of its method, and none at all when the credentials are missing
\* or the listing has no agent email
C23_AtMostOneSend ==
  (pc = "returned" /\ contact.op = "contact_agent_for_listing") =>
     /\ Len(sent) <= 1
     /\ \A i \in 1..Len(sent) : sent[i].channel = ChannelOf(contact.method)
     /\ MissingCredentials => sent = <<>>
     /\ (ByEmail /\ contact.agent_email = "") => sent = <<>>
     /\ (~MissingCredentials /\ ~(ByEmail /\ contact.agent_email = "")) => Len(sent) = 1

\* a call request with credentials whose only attempt the transport refused
C23_Witness ==
  /\ pc = "returned" /\ contact.op = "contact_agent_for_listing"
  /\ contact.method = "call"
  /\ ~MissingCredentials
  /\ Len(sent) = 1
  /\ ~sent[1].accepted
  /\ ~outcome.success

----------------------------------------------------------------------------
(* Scoring and filtering on accessibility                                  *)

\* the listing at position i gets the accessibility bonus: its score is
\* above the score of the same listing with accessibility_features "None"
HasAccessibilityBonus(i) ==
  score_listing(df[i]) >
  score_listing([df[i] EXCEPT !.accessibility_features = <<"N","o","n","e">>])

\* the listing at position i is kept by search(accessibility=True)
KeptByAccessibility(i) ==
  \E k \in 1..Len(filtered(df, [DefaultParams EXCEPT !.accessibility = TRUE])) :
     filtered(df, [DefaultParams EXCEPT !.accessibility = TRUE])[k] = i

\* C24: once a search has scored the listings, a listing has the +5
\* accessibility bonus exactly when search(accessibility=True) keeps it
C24_BonusAgreesWithFilter ==
  (pc = "returned" /\ call.op = "search") =>
     \A i \in 1..Len(df) : HasAccessibilityBonus(i) <=> KeptByAccessibility(i)

----------------------------------------------------------------------------
(* The chatbot (src/src/chatbot.py): one conversation, turn by turn.  A    *)
(* reply is known by its kind and by the listing or the count it names.    *)

\* self._last_results = None
NoResults == [set |-> FALSE, rows |-> <<>>]

NoReply == [kind |-> "none", n |-> 0]

Reply(kind, n) == [kind |-> kind, n |-> n]

\* a contact handler that only asks whether there are remembered results
handle_contact_request_none_only(last) ==
  IF ~last.set THEN Reply("search_first", 0)
  ELSE Reply("agent", IF last.rows = <<>> THEN 0 ELSE last.rows[1].idx)

\* _handle_contact_request(text): the prompt when _last_results is None or
\* empty, the agent of _last_results.iloc[0] otherwise
handle_contact_request(last) ==
  IF ~last.set \/ last.rows = <<>> THEN Reply("search_first", 0)
  ELSE Reply("agent", last.rows[1].idx)

\* what a turn leaves: its reply and the remembered results
Turn(r, last) == [raised |-> FALSE, reply |-> r, last_results |-> last]

\* response = self.ai.answer_query(text); self._last_results = response["results"];
\* an exception of answer_query leaves the turn before the assignment
search_turn(last, ans) ==
  IF ans.raised THEN [raised |-> TRUE, reply |-> NoReply, last_results |-> last]
  ELSE Turn(Reply(ans.summary.kind, ans.summary.count),
            [set |-> TRUE, rows |-> ans.results])

\* process_turn after text = user_input.strip() and lower = text.lower()
turn_of(last, d, tiebreak, text, lowered) ==
  IF text = <<>> THEN Turn(Reply("repeat", 0), last)
  ELSE IF lowered \in {<<"q","u","i","t">>, <<"e","x","i","t">>, <<"b","y","e">>, <<"g","o","o","d","b","y","e">>}
       THEN Turn(Reply("goodbye", 0), last)
  ELSE IF \/ StartsWithAt(lowered, 1, <<"c","o","n","t","a","c","t">>)
          \/ contains(<<"c","a","l","l"," ","a","g","e","n","t">>, lowered)
          \/ contains(<<"e","m","a","i","l"," ","a","g","e","n","t">>, lowered)
       THEN Turn(handle_contact_request(last), last)
  ELSE IF lowered \in {<<"h","e","l","p">>, <<"?">>, <<"w","h","a","t"," ","c","a","n"," ","y","o","u"," ","d","o">>}
       THEN Turn(Reply("welcome", 0), last)
  ELSE search_turn(last, answer_query(d, tiebreak, text, 5))

\* process_turn(user_input)
process_turn(last, d, tiebreak, user_input) ==
  turn_of(last, d, tiebreak, strip(user_input), lower(strip(user_input)))

\* the inputs of the turns
TurnTexts ==
  {<<>>,
   <<" "," ">>,
   <<"q","u","i","t">>,
   <<" ","B","y","e"," ">>,
   <<"h","e","l","p">>,
   <<"W","h","a","t"," ","c","a","n"," ","y","o","u"," ","d","o">>,
   <<"c","o","n","t","a","c","t"," ","a","g","e","n","t">>,
   <<" "," ","C","o","n","t","a","c","t"," ","t","h","e"," ","a","g","e","n","t"," ","f","o","r"," ","l","i","s","t","i","n","g"," ","1">>,
   <<"p","l","e","a","s","e"," ","c","a","l","l"," ","a","g","e","n","t">>,
   <<"E","M","A","I","L"," ","A","G","E","N","T"," ","n","o","w">>,
   <<"g","o","o","d","b","y","e"," ","a","g","e","n","t">>,
   <<"h","e","l","p","f","u","l"," ","c","o","n","t","a","c","t">>,
   <<"2"," ","b","e","d","r","o","o","m"," ","u","n","d","e","r"," ","$","9","0","0">>,
   <<"1","0"," ","b","e","d","r","o","o","m"," ","a","p","a","r","t","m","e","n","t"," ","u","n","d","e","r"," ","$","1","0","0"," ","p","e","r"," ","m","o","n","t","h"," ","i","n"," ","A","t","l","a","n","t","a">>,
   <<"a","f","f","o","r","d","a","b","l","e"," ","h","o","u","s","i","n","g"," ","i","n"," ","A","t","l","a","n","t","a">>,
   <<"h","e","l","l","o">>}

\* process_turn ends: its reply, or its exception, is with the caller
TurnReturns(user_input, turn) ==
  /\ reply' = turn.reply
  /\ last_results' = turn.last_results
  /\ raised' = turn.raised
  /\ call' = [NoCall EXCEPT !.op = "process_turn", !.query = user_input]
  /\ results' = <<>>
  /\ summary' = NoSummary
  /\ pc' = "returned"
  /\ UNCHANGED <<df, tie, source, caller, agent, handlers>>

\* a turn of the conversation
ProcessTurn(user_input) ==
  /\ pc = "idle"
  /\ \E turn \in {process_turn(last_results, df, tie, user_input)} :
        TurnReturns(user_input, turn)

\* the caller takes the reply; the chatbot keeps the results it remembers
TurnReturn ==
  /\ pc = "returned"
  /\ pc' = "idle"
  /\ call' = NoCall
  /\ raised' = FALSE
  /\ reply' = NoReply
  /\ UNCHANGED <<df, tie, results, summary, source, caller, agent, last_results, handlers>>

ChatNext ==
  \/ pc = "idle" /\ \E user_input \in TurnTexts : ProcessTurn(user_input)
  \/ TurnReturn

ChatSpec == Init /\ [][ChatNext]_vars

----------------------------------------------------------------------------
(* Properties of the conversation                                          *)

IsBlank(s) == \A i \in 1..Len(s) : IsSpace(s[i])

IsExit(s) ==
  \E w \in {<<"q","u","i","t">>, <<"e","x","i","t">>, <<"b","y","e">>, <<"g","o","o","d","b","y","e">>} : EqualsTrimmedIgnoreCase(s, w)

IsHelp(s) ==
  \E w \in {<<"h","e","l","p">>, <<"?">>, <<"w","h","a","t"," ","c","a","n"," ","y","o","u"," ","d","o">>} : EqualsTrimmedIgnoreCase(s, w)

\* the input starts with "contact" or contains "call agent" or "email agent"
IsContact(s) ==
  \/ \E p \in 1..Len(s) : OccursAt(<<"c","o","n","t","a","c","t">>, s, p) /\ \A i \in 1..(p - 1) : IsSpace(s[i])
  \/ Occurs(<<"c","a","l","l"," ","a","g","e","n","t">>, s)
  \/ Occurs(<<"e","m","a","i","l"," ","a","g","e","n","t">>, s)

\* the top row of remembered results has the highest score of them
TopRanked(rows) == \A k \in 1..Len(rows) : rows[1].score >= rows[k].score

\* what a turn with this input does, from the results remembered before it
\* to its reply and the results remembered after it
StatedTurn(text, before, r, after, found) ==
  IF IsBlank(text) \/ IsExit(text) \/ IsHelp(text) THEN after = before
  ELSE IF IsContact(text)
       THEN /\ after = before
            /\ r.kind = "search_first" <=> (~before.set \/ before.rows = <<>>)
            /\ r.kind # "search_first" =>
                 /\ r = Reply("agent", before.rows[1].idx)
                 /\ TopRanked(before.rows)
  ELSE after.set /\ after.rows = found

\* C25: a contact turn answers with the search-first prompt exactly when no
\* search turn has left a listing (none yet, or the most recent one found
\* nothing) and names the agent of the top listing of the most recent search
\* otherwise; a search turn remembers its own results; empty, exit, help and
\* contact turns leave the remembered results as they are
C25_ContactFollowsLastSearch ==
  [][(pc = "idle" /\ pc' = "returned" /\ call'.op = "process_turn")
       => StatedTurn(call'.query, last_results, reply', last_results',
                     answer_query(df, tie, strip(call'.query), 5).results)]_vars

\* a contact turn named the agent of the top listing of several remembered ones
C25_Witness ==
  /\ pc = "returned" /\ call.op = "process_turn"
  /\ IsContact(call.query)
  /\ reply.kind = "agent"
  /\ Len(last_results.rows) >= 2
  /\ reply.n = last_results.rows[1].idx

----------------------------------------------------------------------------
(* The /api/chat handler (src/app.py) on the chatbot all requests share.   *)
(* Requests are handled by threads: another request may run between the    *)
(* turn of a request and the reading of _chatbot._last_results for its     *)
(* response.                                                               *)

Clients == {"client1", "client2"}

IdleHandler ==
  [pc |-> "idle", message |-> <<>>, reply |-> NoReply, listings |-> <<>>]

\* the messages posted
Messages ==
  {<<"2"," ","b","e","d","r","o","o","m"," ","u","n","d","e","r"," ","$","9","0","0">>,
   <<"1","0"," ","b","e","d","r","o","o","m"," ","a","p","a","r","t","m","e","n","t"," ","u","n","d","e","r"," ","$","1","0","0"," ","p","e","r"," ","m","o","n","t","h"," ","i","n"," ","A","t","l","a","n","t","a">>,
   <<"h","e","l","p">>,
   <<"c","o","n","t","a","c","t"," ","a","g","e","n","t">>,
   <<" "," ">>}

ApiInit ==
  /\ df = <<ListingPool[1], ListingPool[3]>>
  /\ tie \in TieBreaks(Len(df))
  /\ pc = "idle"
  /\ call = NoCall
  /\ results = <<>>
  /\ raised = FALSE
  /\ summary = NoSummary
  /\ OthersIdle

\* the handler after reply = _chatbot.process_turn(user_input); an exception
\* of the turn ends the request with a server error
handled(text, turn) ==
  IF turn.raised
  THEN [pc |-> "responded", message |-> text, reply |-> Reply("error", 500), listings |-> <<>>]
  ELSE [pc |-> "processed", message |-> text, reply |-> turn.reply, listings |-> <<>>]

\* chat(), to the return of process_turn: an empty message is answered
\* with the error 400 and no turn
ChatRequest(c, text) ==
  /\ handlers[c].pc = "idle"
  /\ IF strip(text) = <<>>
     THEN /\ handlers' = [handlers EXCEPT ![c] =
                            [pc |-> "responded", message |-> text,
                             reply |-> Reply("error", 400), listings |-> <<>>]]
          /\ UNCHANGED last_results
     ELSE \E turn \in {process_turn(last_results, df, tie, strip(text))} :
            /\ handlers' = [handlers EXCEPT ![c] = handled(text, turn)]
            /\ last_results' = turn.last_results
  /\ UNCHANGED <<df, tie, pc, call, results, raised, summary, source, caller, agent, reply>>

\* chat(), from the reading of _chatbot._last_results to the response
ChatRespond(c) ==
  /\ handlers[c].pc = "processed"
  /\ handlers' = [handlers EXCEPT ![c].pc = "responded",
                                  ![c].listings = IF last_results.set THEN last_results.rows
                                                  ELSE <<>>]
  /\ UNCHANGED <<df, tie, pc, call, results, raised, summary, source, caller, agent,
                 reply, last_results>>

\* the response is with the client
ChatDone(c) ==
  /\ handlers[c].pc = "responded"
  /\ handlers' = [handlers EXCEPT ![c] = IdleHandler]
  /\ UNCHANGED <<df, tie, pc, call, results, raised, summary, source, caller, agent,
                 reply, last_results>>

ApiNext ==
  \/ \E c \in Clients, text \in Messages : ChatRequest(c, text)
  \/ \E c \in Clients : ChatRespond(c)
  \/ \E c \in Clients : ChatDone(c)

ApiSpec == ApiInit /\ [][ApiNext]_vars

----------------------------------------------------------------------------
(* Properties of the /api/chat handler                                     *)

\* the message is a housing search: not empty, not an exit, a help or a
\* contact input
IsSearch(s) == ~IsBlank(s) /\ ~IsExit(s) /\ ~IsHelp(s) /\ ~IsContact(s)

\* the listings that belong to a request: the results of its own query, and
\* none for a turn that is no search
OwnListings(text, found) == IF IsSearch(text) THEN found ELSE <<>>

\* C26: the listings of a response are the results of the query of the same
\* request, and a turn that is no search carries no listings
C26_ListingsOfSameRequest ==
  \A c \in Clients :
     handlers[c].pc = "responded" =>
        handlers[c].listings =
          OwnListings(handlers[c].message,
                      answer_query(df, tie, strip(handlers[c].message), 5).results)

====
